---- MODULE Spec2Model ----
(***************************************************************************)
(* Model of BidirectionTTSClient.synthesize_to_file                         *)
(* (src/bidirection_client.py): one call of the coroutine, its transport,   *)
(* the frames it sends, the messages it receives and the error it           *)
(* propagates.  Every `await` of the coroutine is one step of the model.    *)
(***************************************************************************)
EXTENDS Integers, Sequences, FiniteSets, TLC

\* ------------------------------------------------------------------ bounds
\* messages received by the audio receive loop of one call
MaxLoopRecv == 3
\* failures injected into one call (transient transport errors, cancellations)
MaxFaults == 2

\* length of the voice identifiers tried by the resource-id specification
MaxVoiceLen == 3

\* audio payloads one concurrent call receives at most
MaxTaskAudio == 2

\* segments of the list a batch driver loops over
MaxSegments == 3

\* --------------------------------------------------------- program constants
\* default of the sample_rate parameter of __init__
sample_rate == 24000

VARIABLES
    pc,                     \* position of the coroutine (the await it is at)
    caller,                 \* which call site makes the call
    kwargs,                 \* keyword arguments of the call, name -> value
    ws,                     \* transport: "none", "open", "peerClosed", "closed"
    sent,                   \* events of the frames sent on the transport, in order
    closeCount,             \* number of completed websocket.close() calls
    start_session_request,  \* payload sent with StartSession
    synthesis_request,      \* payload sent with TaskRequest
    msg,                    \* last message returned by receive_message
    accepted,               \* events on which a wait_for_event has returned
    loopRx,                 \* messages received by the audio receive loop, in order
    audio_data,             \* the bytearray of the receive loop
    file,                   \* output_file: [exists, data]
    pending,                \* exception raised inside the try block, if any
    outcome,                \* what the call propagated to its caller
    faults,                 \* failures injected so far
    voice_type,             \* a voice identifier, as a sequence of characters
    resource_ids,           \* the resource id each selection gave for it
    tasks,                  \* concurrent calls on one client object, name -> locals
    sockets,                \* every transport opened so far, in order of opening
    uuids,                  \* number of uuid4() values drawn so far
    driver,                 \* the batch driver that runs
    nlp_texts,              \* the segments the driver loops over
    seg,                    \* index of the segment the loop is at
    audio_files,            \* the list of collected output files, as segment indices
    attempted,              \* the synthesize_to_file calls made: segment and result
    merge_calls,            \* the lists merge_audio_files was called with
    driver_pc,              \* "loop", "after_loop", "returned" or "raised"
    driver_exc              \* the exception that left the driver, if any

voiceVars == <<voice_type, resource_ids>>

\* the state of the other specifications of this module
concVars == <<tasks, sockets, uuids>>

batchVars == <<driver, nlp_texts, seg, audio_files, attempted, merge_calls,
               driver_pc, driver_exc>>

others == <<voiceVars, concVars, batchVars>>

vars == <<pc, caller, kwargs, ws, sent, closeCount, start_session_request,
          synthesis_request, msg, accepted, loopRx, audio_data, file,
          pending, outcome, faults, others>>

\* no voice identifier under selection
VoiceIdle == voice_type = <<>> /\ resource_ids = <<>>

\* no concurrent calls
ConcIdle == tasks = <<>> /\ sockets = <<>> /\ uuids = 0

\* no batch driver running
BatchIdle ==
    /\ driver = "none"
    /\ nlp_texts = <<>>
    /\ seg = 0
    /\ audio_files = <<>>
    /\ attempted = <<>>
    /\ merge_calls = <<>>
    /\ driver_pc = "none"
    /\ driver_exc = "none"

OthersIdle == VoiceIdle /\ ConcIdle /\ BatchIdle

\* ------------------------------------------------------------ message model
NoError == [kind |-> "none", payload |-> <<>>]
Err(k) == [kind |-> k, payload |-> <<>>]
ServerError(m) == [kind |-> "ServerError", payload |-> m.payload]

Message(t, e, p) == [type |-> t, event |-> e, payload |-> p]

NoMsg == Message("none", "None", <<>>)

\* payloads of AudioOnlyServer frames
AudioPayloads == {<<>>, <<1>>, <<2>>}

\* payloads of Error frames
ErrorPayloads == {<<7>>, <<8>>}

ServerEvents == {"ConnectionStarted", "SessionStarted", "SessionFinished",
                 "ConnectionFinished"}

\* what the server may deliver at a receive
Inbound ==
    {Message("FullServerResponse", e, <<>>) : e \in ServerEvents}
    \cup {Message("AudioOnlyServer", "None", p) : p \in AudioPayloads}
    \cup {Message("AudioOnlyServer", "SessionFinished", <<1>>)}
    \cup {Message("Error", "None", p) : p \in ErrorPayloads}
    \cup {Message("Error", e, <<7>>) : e \in {"ConnectionStarted", "ConnectionFinished"}}

\* ------------------------------------------------------------ call arguments
\* parameters of synthesize_to_file
Signature == {"text", "voice_type", "resource_id", "output_file", "encoding",
              "speech_rate", "loudness_rate", "emotion", "emotion_scale"}

\* defaults of the optional parameters
Defaults == [encoding |-> "mp3", speech_rate |-> 0, loudness_rate |-> 0,
             emotion |-> "neutral", emotion_scale |-> 0]

Arg(kw, name) == IF name \in DOMAIN kw THEN kw[name] ELSE Defaults[name]

Prosody(sr, lr, em, es) ==
    [speech_rate |-> sr, loudness_rate |-> lr, emotion |-> em, emotion_scale |-> es]

\* prosody values tried on every combination by the payload specification
SpeechRates == {-10, 0, 30}
LoudnessRates == {0, 10, 20}
Emotions == {"neutral", "happy"}
EmotionScales == {0, 3}
AllProsody == {Prosody(sr, lr, em, es) : sr \in SpeechRates, lr \in LoudnessRates,
                                         em \in Emotions, es \in EmotionScales}
Encodings == {"mp3", "pcm"}

\* prosody of the calls whose whole protocol run is explored
ProsodyCalls == {Prosody(0, 0, "neutral", 0), Prosody(0, 20, "neutral", 0),
                 Prosody(-10, 0, "neutral", 0), Prosody(30, 20, "happy", 3)}

PitchRates == {0, 5}

Callers == {"direct", "process_text_to_voice.main", "webui.generate_segments"}

BaseArgs(pr) ==
    [text |-> "text", voice_type |-> "S_voice", resource_id |-> "seed-icl-2.0",
     output_file |-> "out.mp3", encoding |-> "mp3",
     speech_rate |-> pr.speech_rate, loudness_rate |-> pr.loudness_rate,
     emotion |-> pr.emotion, emotion_scale |-> pr.emotion_scale]

\* d[k] = v of a Python dict
SetItem(d, k, v) == [x \in DOMAIN d \cup {k} |-> IF x = k THEN v ELSE d[x]]

\* the keyword arguments each call site passes
CallArgs(c, pr, pitch) ==
    IF c = "direct" THEN BaseArgs(pr)
    ELSE SetItem(BaseArgs(pr), "pitch_rate", pitch)

\* ------------------------------------------------------------------ payloads
NoPayload == [event |-> "None"]

base_request(kw) ==
    [user |-> [uid |-> "uid"],
     namespace |-> "BidirectionalTTS",
     req_params |->
        [speaker |-> kw.voice_type,
         audio_params |-> [format |-> Arg(kw, "encoding"),
                           sample_rate |-> sample_rate,
                           enable_timestamp |-> TRUE],
         additions |-> "{\"disable_markdown_filter\": false}"]]

\* the tests written as "greater than 0"
ProsodyParams_Positive(kw, ap) ==
    LET a1 == IF Arg(kw, "speech_rate") > 0
              THEN SetItem(ap, "speech_rate", Arg(kw, "speech_rate")) ELSE ap
        a2 == IF Arg(kw, "loudness_rate") > 0
              THEN SetItem(a1, "loudness_rate", Arg(kw, "loudness_rate")) ELSE a1
        a3 == IF Arg(kw, "emotion") # "neutral"
              THEN SetItem(a2, "emotion", Arg(kw, "emotion")) ELSE a2
        a4 == IF Arg(kw, "emotion_scale") > 0
              THEN SetItem(a3, "emotion_scale", Arg(kw, "emotion_scale")) ELSE a3
    IN a4

\* the four conditional assignments into audio_params
ProsodyParams(kw, ap) ==
    LET a1 == IF Arg(kw, "speech_rate") # 0
              THEN SetItem(ap, "speech_rate", Arg(kw, "speech_rate")) ELSE ap
        a2 == IF Arg(kw, "loudness_rate") # 0
              THEN SetItem(a1, "loudness_rate", Arg(kw, "loudness_rate")) ELSE a1
        a3 == IF Arg(kw, "emotion") # "neutral"
              THEN SetItem(a2, "emotion", Arg(kw, "emotion")) ELSE a2
        a4 == IF Arg(kw, "emotion_scale") # 0
              THEN SetItem(a3, "emotion_scale", Arg(kw, "emotion_scale")) ELSE a3
    IN a4

StartSessionRequest(kw) ==
    LET b == base_request(kw)
        rp == b.req_params
    IN SetItem([b EXCEPT !.req_params =
                    [rp EXCEPT !.audio_params = ProsodyParams(kw, rp.audio_params)]],
               "event", "StartSession")

\* the task payload made from the request the prosody fields were put into
SynthesisRequest_Aliased(kw) ==
    LET b == StartSessionRequest(kw)
    IN SetItem([b EXCEPT !.req_params = SetItem(b.req_params, "text", kw.text)],
               "event", "TaskRequest")

SynthesisRequest(kw) ==
    LET b == base_request(kw)
    IN SetItem([b EXCEPT !.req_params = SetItem(b.req_params, "text", kw.text)],
               "event", "TaskRequest")

\* ---------------------------------------------------------------- the call
Ok == [kind |-> "ok", payload |-> <<>>]

NoFile == [exists |-> FALSE, data |-> <<>>]

\* output_file before the call: absent, or left by an earlier run
InitialFiles == {NoFile, [exists |-> TRUE, data |-> <<9>>]}

\* awaits inside the try block
TrySteps == {"start_connection", "wait_ConnectionStarted", "start_session",
             "wait_SessionStarted", "task_request", "finish_session", "receive"}

\* awaits inside the finally block
FinallySteps == {"finish_connection", "wait_ConnectionFinished", "close"}

Init ==
    /\ pc = "call"
    /\ caller \in Callers
    /\ \E pr \in ProsodyCalls, pitch \in PitchRates :
            kwargs = CallArgs(caller, pr, pitch)
    /\ ws = "none"
    /\ sent = <<>>
    /\ closeCount = 0
    /\ start_session_request = NoPayload
    /\ synthesis_request = NoPayload
    /\ msg = NoMsg
    /\ accepted = {}
    /\ loopRx = <<>>
    /\ audio_data = <<>>
    /\ file \in InitialFiles
    /\ pending = NoError
    /\ outcome = NoError
    /\ faults = 0
    /\ OthersIdle

\* an exception of the finally block logged and not raised
Raise_Logged(e) ==
    IF pc \in TrySteps
    THEN /\ pending' = e
         /\ pc' = "finish_connection"
         /\ outcome' = outcome
    ELSE /\ outcome' = (IF pending = NoError THEN Ok ELSE pending)
         /\ pc' = "done"
         /\ pending' = pending

\* an exception e is raised at the current await: inside the try block it
\* becomes the pending exception and the finally block starts; inside the
\* finally block it replaces the pending exception and leaves the coroutine
Raise(e) ==
    IF pc \in TrySteps
    THEN /\ pending' = e
         /\ pc' = "finish_connection"
         /\ outcome' = outcome
    ELSE /\ outcome' = e
         /\ pc' = "done"
         /\ pending' = pending

\* the transport fails at the current send or receive: an error of this one
\* operation, the loss of the connection, or an already lost connection
TransportFails ==
    \/ /\ ws = "open"
       /\ faults < MaxFaults
       /\ faults' = faults + 1
       /\ ws' = ws
       /\ Raise(Err("TransportError"))
    \/ /\ ws = "open"
       /\ ws' = "peerClosed"
       /\ faults' = faults
       /\ Raise(Err("StreamClosed"))
    \/ /\ ws = "peerClosed"
       /\ ws' = ws
       /\ faults' = faults
       /\ Raise(Err("StreamClosed"))

\* binding the keyword arguments to the parameters
Call ==
    /\ pc = "call"
    /\ IF DOMAIN kwargs \subseteq Signature
       THEN /\ pc' = "connect"
            /\ outcome' = outcome
       ELSE /\ pc' = "done"
            /\ outcome' = Err("TypeError")
    /\ UNCHANGED <<others, caller, kwargs, ws, sent, closeCount, start_session_request,
                   synthesis_request, msg, accepted, loopRx, audio_data, file,
                   pending, faults>>

\* the failure of websockets.connect caught and the call returning
Connect_Swallowed ==
    /\ pc = "connect"
    /\ \/ /\ ws' = "open"
          /\ pc' = "start_connection"
          /\ outcome' = outcome
       \/ /\ ws' = ws
          /\ pc' = "done"
          /\ outcome' = Ok
    /\ UNCHANGED <<others, caller, kwargs, sent, closeCount, start_session_request,
                   synthesis_request, msg, accepted, loopRx, audio_data, file,
                   pending, faults>>

\* websockets.connect
Connect ==
    /\ pc = "connect"
    /\ \/ /\ ws' = "open"
          /\ pc' = "start_connection"
          /\ outcome' = outcome
       \/ /\ ws' = ws
          /\ pc' = "done"
          /\ outcome' = Err("ConnectFailure")
    /\ UNCHANGED <<others, caller, kwargs, sent, closeCount, start_session_request,
                   synthesis_request, msg, accepted, loopRx, audio_data, file,
                   pending, faults>>

\* one of the frame-sending helpers: the frame goes out or the send raises
Send(step, event, next) ==
    /\ pc = step
    /\ \/ /\ ws = "open"
          /\ sent' = Append(sent, event)
          /\ pc' = next
          /\ UNCHANGED <<ws, pending, outcome, faults>>
       \/ /\ TransportFails
          /\ sent' = sent

StartConnection ==
    /\ Send("start_connection", "StartConnection", "wait_ConnectionStarted")
    /\ UNCHANGED <<others, caller, kwargs, closeCount, start_session_request,
                   synthesis_request, msg, accepted, loopRx, audio_data, file>>

StartSession ==
    /\ Send("start_session", "StartSession", "wait_SessionStarted")
    /\ start_session_request' = StartSessionRequest(kwargs)
    /\ UNCHANGED <<others, caller, kwargs, closeCount, synthesis_request, msg, accepted,
                   loopRx, audio_data, file>>

TaskRequest ==
    /\ Send("task_request", "TaskRequest", "finish_session")
    /\ synthesis_request' = SynthesisRequest(kwargs)
    /\ UNCHANGED <<others, caller, kwargs, closeCount, start_session_request, msg,
                   accepted, loopRx, audio_data, file>>

\* the task helper called where the session is to be finished
FinishSession_TaskAgain ==
    /\ Send("finish_session", "TaskRequest", "receive")
    /\ UNCHANGED <<others, caller, kwargs, closeCount, start_session_request,
                   synthesis_request, msg, accepted, loopRx, audio_data, file>>

FinishSession ==
    /\ Send("finish_session", "FinishSession", "receive")
    /\ UNCHANGED <<others, caller, kwargs, closeCount, start_session_request,
                   synthesis_request, msg, accepted, loopRx, audio_data, file>>

FinishConnection ==
    /\ Send("finish_connection", "FinishConnection", "wait_ConnectionFinished")
    /\ UNCHANGED <<others, caller, kwargs, closeCount, start_session_request,
                   synthesis_request, msg, accepted, loopRx, audio_data, file>>

\* the test of wait_for_event on one received message
Matches(m, type, event) == m.type = type /\ m.event = event

\* one receive of wait_for_event: return on the expected message, read on
\* after anything else, raise when the receive raises
WaitForEvent(step, type, event, next) ==
    /\ pc = step
    /\ \/ /\ ws = "open"
          /\ \E m \in Inbound :
                /\ msg' = m
                /\ IF Matches(m, type, event)
                   THEN /\ pc' = next
                        /\ accepted' = accepted \cup {event}
                   ELSE /\ pc' = pc
                        /\ accepted' = accepted
          /\ UNCHANGED <<ws, pending, outcome, faults>>
       \/ /\ TransportFails
          /\ UNCHANGED <<msg, accepted>>
    /\ UNCHANGED <<others, caller, kwargs, sent, closeCount, start_session_request,
                   synthesis_request, loopRx, audio_data, file>>

\* the wait for ConnectionStarted left out
WaitConnectionStarted_Skipped ==
    /\ pc = "wait_ConnectionStarted"
    /\ pc' = "start_session"
    /\ UNCHANGED <<others, caller, kwargs, ws, sent, closeCount, start_session_request,
                   synthesis_request, msg, accepted, loopRx, audio_data, file,
                   pending, outcome, faults>>

WaitConnectionStarted ==
    WaitForEvent("wait_ConnectionStarted", "FullServerResponse",
                 "ConnectionStarted", "start_session")

\* the wait for SessionStarted given the event of the previous wait
WaitSessionStarted_WrongEvent ==
    WaitForEvent("wait_SessionStarted", "FullServerResponse",
                 "ConnectionStarted", "task_request")

WaitSessionStarted ==
    WaitForEvent("wait_SessionStarted", "FullServerResponse",
                 "SessionStarted", "task_request")

\* the cleanup waiting for the event of the session
WaitConnectionFinished_WrongEvent ==
    WaitForEvent("wait_ConnectionFinished", "FullServerResponse",
                 "SessionFinished", "close")

WaitConnectionFinished ==
    WaitForEvent("wait_ConnectionFinished", "FullServerResponse",
                 "ConnectionFinished", "close")

\* the payload put in front of the buffer
Extend_Prepend(buf, m) ==
    IF m.type = "AudioOnlyServer" THEN m.payload \o buf ELSE buf

\* the body of the receive loop on one message: what becomes of audio_data
Extend(buf, m) ==
    IF m.type = "FullServerResponse" THEN buf
    ELSE IF m.type = "AudioOnlyServer" THEN buf \o m.payload
    ELSE buf

\* the event of the message not looked at
Breaks_AnyEvent(m) == m.type = "FullServerResponse"

\* the message makes the loop break
Breaks(m) == m.type = "FullServerResponse" /\ m.event = "SessionFinished"

\* the message makes the loop raise
Aborts(m) == m.type # "FullServerResponse" /\ m.type # "AudioOnlyServer"
             /\ m.type = "Error"

\* one iteration of the receive loop and, when it breaks, the check of
\* audio_data and the write of output_file, up to the first await of finally
Receive ==
    /\ pc = "receive"
    /\ \/ /\ ws = "open"
          /\ Len(loopRx) < MaxLoopRecv
          /\ \E m \in Inbound :
                /\ msg' = m
                /\ loopRx' = Append(loopRx, m)
                /\ audio_data' = Extend(audio_data, m)
                /\ IF Breaks(m)
                   THEN IF audio_data' = <<>>
                        THEN /\ pending' = Err("NoAudio")
                             /\ file' = file
                        ELSE /\ pending' = pending
                             /\ file' = [exists |-> TRUE, data |-> audio_data']
                   ELSE IF Aborts(m)
                   THEN /\ pending' = ServerError(m)
                        /\ file' = file
                   ELSE /\ pending' = pending
                        /\ file' = file
                /\ pc' = IF Breaks(m) \/ Aborts(m) THEN "finish_connection" ELSE pc
          /\ UNCHANGED <<ws, outcome, faults>>
       \/ /\ TransportFails
          /\ UNCHANGED <<msg, loopRx, audio_data, file>>
    /\ UNCHANGED <<others, caller, kwargs, sent, closeCount, start_session_request,
                   synthesis_request, accepted>>

\* websocket.close(), the last statement of finally: afterwards the pending
\* exception, if any, propagates, otherwise the call returns
Close ==
    /\ pc = "close"
    /\ ws' = "closed"
    /\ closeCount' = closeCount + 1
    /\ outcome' = IF pending = NoError THEN Ok ELSE pending
    /\ pc' = "done"
    /\ UNCHANGED <<others, caller, kwargs, sent, start_session_request, synthesis_request,
                   msg, accepted, loopRx, audio_data, file, pending, faults>>

\* the task is cancelled while the coroutine is suspended at an await; a
\* cancellation that arrives during close() finds the transport closed or not
Cancel ==
    /\ pc \in TrySteps \cup FinallySteps
    /\ faults < MaxFaults
    /\ faults' = faults + 1
    /\ Raise(Err("Cancelled"))
    /\ IF pc = "close"
       THEN \E performed \in BOOLEAN :
                /\ ws' = IF performed THEN "closed" ELSE ws
                /\ closeCount' = IF performed THEN closeCount + 1 ELSE closeCount
       ELSE UNCHANGED <<ws, closeCount>>
    /\ UNCHANGED <<others, caller, kwargs, sent, start_session_request, synthesis_request,
                   msg, accepted, loopRx, audio_data, file>>

Next ==
    \/ Call
    \/ Connect
    \/ StartConnection
    \/ WaitConnectionStarted
    \/ StartSession
    \/ WaitSessionStarted
    \/ TaskRequest
    \/ FinishSession
    \/ Receive
    \/ FinishConnection
    \/ WaitConnectionFinished
    \/ Close
    \/ Cancel

Spec == Init /\ [][Next]_vars

\* ------------------------------------------- the payloads on their own
\* The two request payloads are functions of the arguments alone; this
\* specification builds them for every combination of the prosody values.
InitPayload ==
    /\ pc = "build_session"
    /\ caller = "direct"
    /\ \E pr \in AllProsody, enc \in Encodings :
            kwargs = [BaseArgs(pr) EXCEPT !.encoding = enc]
    /\ ws = "none"
    /\ sent = <<>>
    /\ closeCount = 0
    /\ start_session_request = NoPayload
    /\ synthesis_request = NoPayload
    /\ msg = NoMsg
    /\ accepted = {}
    /\ loopRx = <<>>
    /\ audio_data = <<>>
    /\ file = NoFile
    /\ pending = NoError
    /\ outcome = NoError
    /\ faults = 0
    /\ OthersIdle

BuildStartSession ==
    /\ pc = "build_session"
    /\ start_session_request' = StartSessionRequest(kwargs)
    /\ pc' = "build_task"
    /\ UNCHANGED <<others, caller, kwargs, ws, sent, closeCount, synthesis_request, msg,
                   accepted, loopRx, audio_data, file, pending, outcome, faults>>

BuildSynthesis ==
    /\ pc = "build_task"
    /\ synthesis_request' = SynthesisRequest(kwargs)
    /\ pc' = "built"
    /\ UNCHANGED <<others, caller, kwargs, ws, sent, closeCount, start_session_request,
                   msg, accepted, loopRx, audio_data, file, pending, outcome, faults>>

NextPayload ==
    \/ BuildStartSession
    \/ BuildSynthesis

SpecPayload == InitPayload /\ [][NextPayload]_vars

\* ------------------------------------------------------------------ helpers
Range(s) == {s[i] : i \in DOMAIN s}

Count(s, x) == Cardinality({i \in DOMAIN s : s[i] = x})

Last(s) == s[Len(s)]

\* the call has ended after it had opened the transport
Ended == pc = "done" /\ ws # "none"

\* ------------------------------------------------------------------ claims

\* C1: after a failure in steps 2-7 (transport error on a send or receive,
\* server Error frame, wait ended by a closed stream) the call ends with
\* FinishConnection sent exactly once and the transport closed exactly once.
C1_CleanupExactlyOnce ==
    (Ended /\ pending.kind \in {"TransportError", "StreamClosed", "ServerError"})
        => /\ Count(sent, "FinishConnection") = 1
           /\ closeCount = 1
           /\ ws = "closed"

\* position of a client frame in the protocol sequence
Rank(event) ==
    CASE event = "StartConnection" -> 1
      [] event = "StartSession" -> 2
      [] event = "TaskRequest" -> 3
      [] event = "FinishSession" -> 4
      [] event = "FinishConnection" -> 5

\* C2: the client frames go out in protocol order, each at most once;
\* StartSession only after ConnectionStarted was received, TaskRequest and
\* FinishSession only after SessionStarted was received, and the transport is
\* closed only after ConnectionFinished was received.
C2_StepOrdering ==
    /\ \A i, j \in DOMAIN sent : i < j => Rank(sent[i]) < Rank(sent[j])
    /\ "StartSession" \in Range(sent) => "ConnectionStarted" \in accepted
    /\ "TaskRequest" \in Range(sent) => "SessionStarted" \in accepted
    /\ "FinishSession" \in Range(sent) => "SessionStarted" \in accepted
    /\ (closeCount > 0 \/ ws = "closed") => "ConnectionFinished" \in accepted

\* C2 witness: a call that went through all the steps and closed the transport
C2_Witness ==
    /\ pc = "done"
    /\ sent = <<"StartConnection", "StartSession", "TaskRequest",
                "FinishSession", "FinishConnection">>
    /\ closeCount = 1
    /\ accepted = {"ConnectionStarted", "SessionStarted", "ConnectionFinished"}

\* C3: the error the call propagates is the error of steps 2-7 whatever the
\* cleanup does, and a call whose steps 2-7 succeeded returns successfully.
C3_CleanupNeverMasks ==
    Ended => outcome = (IF pending = NoError THEN Ok ELSE pending)

IsSessionFinished(m) == m.type = "FullServerResponse" /\ m.event = "SessionFinished"

\* the payloads of the AudioOnlyServer frames of rx, in arrival order, up to
\* the first FullServerResponse/SessionFinished message
RECURSIVE AudioBefore(_)
AudioBefore(rx) ==
    IF rx = <<>> THEN <<>>
    ELSE IF IsSessionFinished(Head(rx)) THEN <<>>
    ELSE (IF Head(rx).type = "AudioOnlyServer" THEN Head(rx).payload ELSE <<>>)
            \o AudioBefore(Tail(rx))

C5_EmptyAudioFails ==
    (pc = "done" /\ loopRx # <<>> /\ IsSessionFinished(Last(loopRx))
        /\ AudioBefore(loopRx) = <<>>)
        => outcome = Err("NoAudio")

\* C6: an Error message received while waiting for ConnectionStarted or
\* SessionStarted or in the receive loop ends steps 2-7 (no StartSession,
\* TaskRequest or FinishSession follows), and the call fails with the
\* server's error payload.
C6_ErrorFrameTerminates ==
    /\ (pc \in {"wait_ConnectionStarted", "wait_SessionStarted"}) => msg.type # "Error"
    /\ (loopRx # <<>> /\ Last(loopRx).type = "Error") =>
            /\ pc \notin TrySteps
            /\ pc = "done" => outcome = ServerError(Last(loopRx))

WaitSteps == {"wait_ConnectionStarted", "wait_SessionStarted", "wait_ConnectionFinished"}

\* the event each wait step is for, and the step that follows it
Expected(step) ==
    CASE step = "wait_ConnectionStarted" -> "ConnectionStarted"
      [] step = "wait_SessionStarted" -> "SessionStarted"
      [] step = "wait_ConnectionFinished" -> "ConnectionFinished"

Following(step) ==
    CASE step = "wait_ConnectionStarted" -> "start_session"
      [] step = "wait_SessionStarted" -> "task_request"
      [] step = "wait_ConnectionFinished" -> "close"

\* what C7 asks of one step taken at a wait
FilteringStep ==
    pc \in WaitSteps =>
        /\ (pc' = Following(pc)) =>
                (msg'.type = "FullServerResponse" /\ msg'.event = Expected(pc))
        /\ (msg' # msg /\ ~(msg'.type = "FullServerResponse" /\ msg'.event = Expected(pc))) =>
                (/\ pc' = pc
                 /\ UNCHANGED <<sent, accepted, loopRx, audio_data, file, pending, outcome>>)

\* C7: a wait goes on to the next step only on a FullServerResponse with the
\* event it waits for; any other message it receives is dropped: the call
\* stays in the wait and nothing of the message is kept.
C7_FilteringWait == [][FilteringStep]_vars

\* C7 witness: an out-of-order SessionFinished was dropped by the wait for
\* SessionStarted, which is still waiting
C7_Witness ==
    /\ pc = "wait_SessionStarted"
    /\ msg = Message("FullServerResponse", "SessionFinished", <<>>)

\* C8: a call that was cancelled at an await after the transport was opened
\* ends with FinishConnection sent and the transport closed.
C8_CancellationSafety ==
    (Ended /\ (pending.kind = "Cancelled" \/ outcome.kind = "Cancelled"))
        => /\ "FinishConnection" \in Range(sent)
           /\ ws = "closed"

Knobs == {"speech_rate", "loudness_rate", "emotion", "emotion_scale"}

Sentinel(knob) == IF knob = "emotion" THEN "neutral" ELSE 0

\* C9: in the StartSession payload each of speech_rate, loudness_rate, emotion
\* and emotion_scale is in audio_params exactly when the value passed is not
\* its sentinel, then with the value passed; with all four at their sentinel
\* audio_params has format, sample_rate and enable_timestamp only.
C9_ProsodyDefaulting ==
    start_session_request # NoPayload =>
        LET ap == start_session_request.req_params.audio_params IN
        /\ \A k \in Knobs : (k \in DOMAIN ap) <=> (kwargs[k] # Sentinel(k))
        /\ \A k \in Knobs : (k \in DOMAIN ap) => ap[k] = kwargs[k]
        /\ (\A k \in Knobs : kwargs[k] = Sentinel(k)) =>
                DOMAIN ap = {"format", "sample_rate", "enable_timestamp"}

\* C9 witness: a payload built for a negative speech rate and an emotion, the
\* other two knobs at their sentinel
C9_Witness ==
    /\ start_session_request # NoPayload
    /\ kwargs.speech_rate = -10
    /\ kwargs.emotion = "happy"
    /\ kwargs.loudness_rate = 0
    /\ kwargs.emotion_scale = 0
    /\ DOMAIN start_session_request.req_params.audio_params =
            {"format", "sample_rate", "enable_timestamp", "speech_rate", "emotion"}

\* C10: a call that passes pitch_rate is accepted, and the StartSession it
\* sends carries pitch_rate when the value is not 0 and has no pitch_rate
\* when the value is 0.
C10_PitchOverride ==
    "pitch_rate" \in DOMAIN kwargs =>
        /\ outcome.kind # "TypeError"
        /\ "StartSession" \in Range(sent) =>
            LET ap == start_session_request.req_params.audio_params IN
            IF kwargs.pitch_rate # 0
            THEN "pitch_rate" \in DOMAIN ap /\ ap.pitch_rate = kwargs.pitch_rate
            ELSE "pitch_rate" \notin DOMAIN ap

\* positions of sent at which a frame of the event went out
At(event) == {i \in DOMAIN sent : sent[i] = event}

\* the connection frames around the session frames, the session frames around
\* the task frame, one session at most
Bracketing ==
    /\ \A i \in At("StartSession") \cup At("FinishSession") :
            /\ \E j \in At("StartConnection") : j < i
            /\ \A j \in At("FinishConnection") : i < j
    /\ \A i \in At("TaskRequest") :
            /\ \E j \in At("StartSession") : j < i
            /\ \A j \in At("FinishSession") : i < j
    /\ Cardinality(At("StartSession")) <= 1
    /\ \A i \in At("FinishSession") : \E j \in At("StartSession") : j < i

\* C13 as stated: the bracketing, and every session opened with StartSession
\* has been closed with FinishSession by the time FinishConnection is sent.
C13_EventBracketing ==
    /\ Bracketing
    /\ (At("FinishConnection") # {} /\ At("StartSession") # {}) => At("FinishSession") # {}

\* C13 as amended: the bracketing on every exit path; the session is closed
\* before FinishConnection on the paths where no step from StartSession to
\* FinishSession raised; after such a failure FinishConnection goes out with
\* the session still open.
C13_BracketingAmended ==
    /\ Bracketing
    /\ (At("FinishConnection") # {} /\ At("StartSession") # {} /\ pending = NoError)
            => At("FinishSession") # {}

\* C13 witness: FinishConnection sent after a failed step, the session open
C13_Witness ==
    /\ At("FinishConnection") # {}
    /\ At("StartSession") # {}
    /\ At("FinishSession") = {}
    /\ pending # NoError

\* C17: a call whose transport could not be opened propagates the connection
\* error, has sent no frame, has closed nothing and has left output_file alone.
C17_OpenFailure ==
    /\ (pc = "done" /\ ws = "none" /\ DOMAIN kwargs \subseteq Signature)
            => outcome = Err("ConnectFailure")
    /\ outcome.kind = "ConnectFailure" =>
            /\ pc = "done"
            /\ ws = "none"
            /\ sent = <<>>
            /\ closeCount = 0
            /\ file \in InitialFiles

\* C17 witness: a call ended by the failure of websockets.connect
C17_Witness ==
    /\ pc = "done"
    /\ outcome = Err("ConnectFailure")

BaseAudioKeys == {"format", "sample_rate", "enable_timestamp"}

\* C18: a successful call sent one TaskRequest; its payload has the fields of
\* the base request with the values StartSession carried, the event
\* TaskRequest and the whole text, and none of the prosody fields put into
\* the StartSession payload.
C18_TaskRequestContent ==
    /\ outcome = Ok => Cardinality(At("TaskRequest")) = 1
    /\ At("TaskRequest") # {} =>
        LET s == start_session_request
            t == synthesis_request
        IN /\ DOMAIN t = {"user", "namespace", "req_params", "event"}
           /\ t.event = "TaskRequest"
           /\ t.user = s.user
           /\ t.namespace = s.namespace
           /\ DOMAIN t.req_params = {"speaker", "audio_params", "additions", "text"}
           /\ t.req_params.text = kwargs.text
           /\ t.req_params.speaker = s.req_params.speaker
           /\ t.req_params.additions = s.req_params.additions
           /\ DOMAIN t.req_params.audio_params = BaseAudioKeys
           /\ \A k \in BaseAudioKeys :
                t.req_params.audio_params[k] = s.req_params.audio_params[k]

\* C18 witness: a successful call made with all four prosody overrides
C18_Witness ==
    /\ outcome = Ok
    /\ kwargs.speech_rate = 30
    /\ kwargs.emotion = "happy"
    /\ DOMAIN start_session_request.req_params.audio_params # BaseAudioKeys

\* what C20 asks of every state: a failure of steps 2-7 has left output_file
\* as it was, and a written output_file holds the buffer of a loop ended by
\* SessionFinished
PersistInv ==
    /\ pending # NoError => file \in InitialFiles
    /\ file \notin InitialFiles =>
            /\ loopRx # <<>>
            /\ IsSessionFinished(Last(loopRx))
            /\ audio_data # <<>>
            /\ file = [exists |-> TRUE, data |-> audio_data]

\* what C20 asks of every step that changes output_file: it is the first
\* write, made on receiving SessionFinished with a non-empty buffer, of the
\* whole buffer, with FinishConnection not yet sent
PersistStep ==
    file' # file =>
        /\ file \in InitialFiles
        /\ pc = "receive"
        /\ IsSessionFinished(msg')
        /\ audio_data' # <<>>
        /\ file' = [exists |-> TRUE, data |-> audio_data']
        /\ pending' = NoError
        /\ "FinishConnection" \notin Range(sent')

\* C20: output_file is written at most once per call, only after
\* SessionFinished was received with a non-empty buffer, with the whole
\* buffer, before FinishConnection is sent; where steps 2-7 fail it is
\* neither created nor modified.
C20_PersistOnlyOnSuccess == []PersistInv /\ [][PersistStep]_vars

\* C20 witness: the file of an earlier run replaced by the two payloads
\* received, the cleanup not yet started
C20_Witness ==
    /\ pc = "finish_connection"
    /\ pending = NoError
    /\ file = [exists |-> TRUE, data |-> <<1, 2>>]
    /\ "FinishConnection" \notin Range(sent)

\* ------------------------------------------------- termination of one call
\* one call with the default prosody and no output_file yet
InitLive ==
    /\ Init
    /\ caller = "direct"
    /\ kwargs = CallArgs("direct", Prosody(0, 0, "neutral", 0), 0)
    /\ file = NoFile

\* the event loop keeps running the coroutine: a step that can be taken is
\* taken; nothing is assumed of the server
FairSpec == InitLive /\ [][Next]_vars /\ WF_vars(Next)

\* a receive of steps 2-7 raised a transport error: the frame before the wait
\* went out and the event waited for never arrived
FailedInWait ==
    /\ pending.kind \in {"TransportError", "StreamClosed"}
    /\ \/ At("StartConnection") # {} /\ "ConnectionStarted" \notin accepted
       \/ At("StartSession") # {} /\ "SessionStarted" \notin accepted
       \/ At("FinishSession") # {}

Failed == pc = "done" /\ outcome.kind \notin {"ok", "none"}

\* C15 as stated: after the transport closed or raised in a wait, the call
\* never returns successfully and eventually ends with a failure.
C15_WaitFailureTerminates ==
    /\ []((FailedInWait \/ ws = "peerClosed") => outcome # Ok)
    /\ (FailedInWait \/ ws = "peerClosed") ~> Failed

\* C15 as amended: after the transport closed or raised in a wait the call
\* never returns successfully; once the stream is closed the call ends
\* with a failure.
C15_StreamClosedTerminates ==
    /\ []((FailedInWait \/ ws = "peerClosed") => outcome # Ok)
    /\ (ws = "peerClosed") ~> Failed

\* C15 witness: steps 2-7 went through, the stream closed during the wait for
\* ConnectionFinished, and the call ended with the stream-closed error
C15_Witness ==
    /\ pc = "done"
    /\ ws = "peerClosed"
    /\ At("FinishConnection") # {}
    /\ pending = NoError
    /\ outcome = Err("StreamClosed")

\* the server delivers the event the client waits for at the step
ServerSends(step, event) ==
    /\ pc = step
    /\ msg' = Message("FullServerResponse", event, <<>>)
    /\ Next

\* the event loop keeps running the coroutine, and a server that answers:
\* while the client waits for an event the server eventually delivers it
LiveSpec ==
    /\ InitLive /\ [][Next]_vars
    /\ WF_vars(Next)
    /\ WF_vars(ServerSends("wait_ConnectionStarted", "ConnectionStarted"))
    /\ WF_vars(ServerSends("wait_SessionStarted", "SessionStarted"))
    /\ WF_vars(ServerSends("wait_ConnectionFinished", "ConnectionFinished"))

\* a run in which nothing fails: no transport error, cancellation or Error
\* frame, audio before SessionFinished, and SessionFinished within the
\* messages the receive loop takes
Cooperative ==
    /\ pending = NoError
    /\ outcome.kind \in {"none", "ok"}
    /\ ~(pc = "receive" /\ Len(loopRx) >= MaxLoopRecv)

Succeeded == pc = "done" /\ outcome = Ok /\ ws = "closed" /\ closeCount = 1

\* C19: with a server that answers each step, whatever other frames it sends
\* in between, a call that opened its transport eventually closes the
\* transport and returns successfully.
C19_CooperativeLiveness ==
    []Cooperative => ((pc = "start_connection") ~> Succeeded)

\* C19 witness: a successful call whose waits and receive loop had frames to
\* drop on the way
C19_Witness ==
    /\ Succeeded
    /\ faults = 0
    /\ Len(loopRx) = 3
    /\ loopRx[1].type = "FullServerResponse"
    /\ file.exists

\* ------------------------------------------------ resource-id selection
\* The call of the other specifications, not started
CallIdle ==
    /\ caller = "direct"
    /\ kwargs = BaseArgs(Prosody(0, 0, "neutral", 0))
    /\ ws = "none"
    /\ sent = <<>>
    /\ closeCount = 0
    /\ start_session_request = NoPayload
    /\ synthesis_request = NoPayload
    /\ msg = NoMsg
    /\ accepted = {}
    /\ loopRx = <<>>
    /\ audio_data = <<>>
    /\ file = NoFile
    /\ pending = NoError
    /\ outcome = NoError
    /\ faults = 0

callVars == <<pc, caller, kwargs, ws, sent, closeCount, start_session_request,
              synthesis_request, msg, accepted, loopRx, audio_data, file,
              pending, outcome, faults>>

\* characters of the voice identifiers tried
Chars == {"S", "s", "_", "z"}

Voices == UNION {[1..n -> Chars] : n \in 0..MaxVoiceLen}

\* str.startswith
startswith(str, prefix) ==
    /\ Len(str) >= Len(prefix)
    /\ SubSeq(str, 1, Len(prefix)) = prefix

\* BidirectionTTSClient.get_resource_id_for_voice
get_resource_id_for_voice(v) ==
    IF startswith(v, <<"S", "_">>) THEN "seed-icl-2.0" ELSE "seed-tts-2.0"

\* the selection written inline in process_more_file.process_single_file
process_single_file_resource_id(v) ==
    IF startswith(v, <<"S", "_">>) THEN "seed-icl-2.0" ELSE "seed-tts-2.0"

\* the inline selection the other way round, as its comment reads
main_resource_id_AsCommented(v) ==
    IF ~startswith(v, <<"S", "_">>) THEN "seed-icl-2.0" ELSE "seed-tts-2.0"

\* the selection written inline in process_text_to_voice.main
main_resource_id(v) ==
    IF ~startswith(v, <<"S", "_">>) THEN "seed-tts-2.0" ELSE "seed-icl-2.0"

InitVoice ==
    /\ pc = "select"
    /\ CallIdle
    /\ ConcIdle
    /\ BatchIdle
    /\ voice_type \in Voices
    /\ resource_ids = <<>>

\* one of the three selections is applied to the voice identifier
Select(site, rid) ==
    /\ pc = "select"
    /\ site \notin DOMAIN resource_ids
    /\ resource_ids' = SetItem(resource_ids, site, rid)
    /\ UNCHANGED <<callVars, concVars, batchVars, voice_type>>

SelectHelper ==
    Select("get_resource_id_for_voice", get_resource_id_for_voice(voice_type))

SelectSingleFile ==
    Select("process_single_file", process_single_file_resource_id(voice_type))

SelectMain ==
    Select("main", main_resource_id(voice_type))

NextVoice ==
    \/ SelectHelper
    \/ SelectSingleFile
    \/ SelectMain

SpecVoice == InitVoice /\ [][NextVoice]_vars

Tasks == {"a", "b"}

\* the locals of a call that has not started
NoTask == [pc |-> "idle", ws |-> 0, session_id |-> 0, audio_data |-> <<>>,
           saved |-> <<>>, pending |-> NoError, outcome |-> NoError]

\* a transport as websockets.connect returns it, with its handshake header
Socket(connect_id) == [connect_id |-> connect_id, frames |-> <<>>,
                       received |-> <<>>, closed |-> FALSE]

\* a frame on the wire: its event and the session id it carries (0: none)
Frame(event, session_id) == [event |-> event, session_id |-> session_id]

\* audio payloads a server sends to a concurrent call
TaskPayloads == {<<1>>, <<2>>}

TaskTrySteps == {"start_connection", "wait_connection_started", "start_session",
                 "wait_session_started", "task_request", "finish_session",
                 "receive"}

InitConc ==
    /\ pc = "tasks"
    /\ CallIdle
    /\ VoiceIdle
    /\ BatchIdle
    /\ tasks = [c \in Tasks |-> NoTask]
    /\ sockets = <<>>
    /\ uuids = 0

concOthers == <<callVars, voiceVars, batchVars>>

\* uuid4 drawn again: the value every call drew before
uuid4_Repeated(k) == k

\* the k-th uuid.uuid4() of a step: a value no earlier draw returned
uuid4(k) == uuids + k

\* an exception in the try block is pending while finally runs; one raised
\* inside finally leaves the coroutine at once
TaskRaise(c, e) ==
    IF tasks[c].pc \in TaskTrySteps
    THEN tasks' = [tasks EXCEPT ![c].pending = e, ![c].pc = "finish_connection"]
    ELSE tasks' = [tasks EXCEPT ![c].outcome = e, ![c].pc = "done"]

\* the transport kept on the client object and shared by its calls
TaskConnect_SharedSocket(c) ==
    /\ tasks[c].pc = "idle"
    /\ uuids' = uuids + 1
    /\ \/ /\ sockets' = IF sockets = <<>> THEN <<Socket(uuid4(1))>> ELSE sockets
          /\ tasks' = [tasks EXCEPT ![c].ws = 1, ![c].pc = "start_connection"]
       \/ /\ tasks' = [tasks EXCEPT ![c].outcome = Err("ConnectionClosed"),
                                    ![c].pc = "done"]
          /\ UNCHANGED sockets
    /\ UNCHANGED concOthers

\* the headers with a new X-Api-Connect-Id, then websockets.connect, before try
TaskConnect(c) ==
    /\ tasks[c].pc = "idle"
    /\ uuids' = uuids + 1
    /\ \/ /\ sockets' = Append(sockets, Socket(uuid4(1)))
          /\ tasks' = [tasks EXCEPT ![c].ws = Len(sockets) + 1,
                                    ![c].pc = "start_connection"]
       \/ /\ tasks' = [tasks EXCEPT ![c].outcome = Err("ConnectionClosed"),
                                    ![c].pc = "done"]
          /\ UNCHANGED sockets
    /\ UNCHANGED concOthers

\* a frame goes out on the call's own websocket, or the send raises
TaskSend(c, step, event, session_id, next) ==
    /\ tasks[c].pc = step
    /\ \/ /\ sockets' = [sockets EXCEPT ![tasks[c].ws].frames =
                                            Append(@, Frame(event, session_id))]
          /\ tasks' = [tasks EXCEPT ![c].pc = next]
       \/ /\ TaskRaise(c, Err("ConnectionClosed"))
          /\ UNCHANGED sockets

\* wait_for_event on the call's own websocket: returns on the expected event,
\* goes on waiting on any other message, or raises
TaskWait(c, step, event, next) ==
    /\ tasks[c].pc = step
    /\ \/ \E e \in ServerEvents :
            tasks' = [tasks EXCEPT ![c].pc = IF e = event THEN next ELSE step]
       \/ TaskRaise(c, Err("ConnectionClosed"))
    /\ UNCHANGED <<sockets, uuids, concOthers>>

TaskStartConnection(c) ==
    /\ TaskSend(c, "start_connection", "StartConnection", 0, "wait_connection_started")
    /\ UNCHANGED <<uuids, concOthers>>

TaskWaitConnectionStarted(c) ==
    TaskWait(c, "wait_connection_started", "ConnectionStarted", "start_session")

\* base_request with a new user uid, then session_id = str(uuid.uuid4()), then
\* start_session
TaskStartSession(c) ==
    /\ tasks[c].pc = "start_session"
    /\ uuids' = uuids + 2
    /\ \/ /\ sockets' = [sockets EXCEPT ![tasks[c].ws].frames =
                                            Append(@, Frame("StartSession", uuid4(2)))]
          /\ tasks' = [tasks EXCEPT ![c].session_id = uuid4(2),
                                    ![c].pc = "wait_session_started"]
       \/ /\ tasks' = [tasks EXCEPT ![c].session_id = uuid4(2),
                                    ![c].pending = Err("ConnectionClosed"),
                                    ![c].pc = "finish_connection"]
          /\ UNCHANGED sockets
    /\ UNCHANGED concOthers

TaskWaitSessionStarted(c) ==
    TaskWait(c, "wait_session_started", "SessionStarted", "task_request")

TaskTaskRequest(c) ==
    /\ TaskSend(c, "task_request", "TaskRequest", tasks[c].session_id, "finish_session")
    /\ UNCHANGED <<uuids, concOthers>>

TaskFinishSession(c) ==
    /\ TaskSend(c, "finish_session", "FinishSession", tasks[c].session_id, "receive")
    /\ UNCHANGED <<uuids, concOthers>>

\* one turn of the receive loop on the call's own websocket, with the checks
\* and the file write that follow the loop
TaskReceive(c) ==
    /\ tasks[c].pc = "receive"
    /\ \/ /\ Len(tasks[c].audio_data) < MaxTaskAudio
          /\ \E p \in TaskPayloads :
                /\ sockets' = [sockets EXCEPT ![tasks[c].ws].received = @ \o p]
                /\ tasks' = [tasks EXCEPT ![c].audio_data = @ \o p]
       \/ /\ IF tasks[c].audio_data = <<>>      \* SessionFinished arrives
             THEN TaskRaise(c, Err("NoAudio"))
             ELSE tasks' = [tasks EXCEPT ![c].saved = tasks[c].audio_data,
                                         ![c].pc = "finish_connection"]
          /\ UNCHANGED sockets
       \/ /\ \E m \in ErrorPayloads :
                TaskRaise(c, [kind |-> "ServerError", payload |-> m])
          /\ UNCHANGED sockets
       \/ /\ TaskRaise(c, Err("ConnectionClosed"))
          /\ UNCHANGED sockets
    /\ UNCHANGED <<uuids, concOthers>>

TaskFinishConnection(c) ==
    /\ TaskSend(c, "finish_connection", "FinishConnection", 0, "wait_connection_finished")
    /\ UNCHANGED <<uuids, concOthers>>

TaskWaitConnectionFinished(c) ==
    TaskWait(c, "wait_connection_finished", "ConnectionFinished", "close")

\* websocket.close() on the call's own websocket, then return or re-raise
TaskClose(c) ==
    /\ tasks[c].pc = "close"
    /\ sockets' = [sockets EXCEPT ![tasks[c].ws].closed = TRUE]
    /\ tasks' = [tasks EXCEPT
                    ![c].outcome = IF tasks[c].pending = NoError
                                   THEN Ok ELSE tasks[c].pending,
                    ![c].pc = "done"]
    /\ UNCHANGED <<uuids, concOthers>>

NextConc ==
    \E c \in Tasks :
        \/ TaskConnect(c)
        \/ TaskStartConnection(c)
        \/ TaskWaitConnectionStarted(c)
        \/ TaskStartSession(c)
        \/ TaskWaitSessionStarted(c)
        \/ TaskTaskRequest(c)
        \/ TaskFinishSession(c)
        \/ TaskReceive(c)
        \/ TaskFinishConnection(c)
        \/ TaskWaitConnectionFinished(c)
        \/ TaskClose(c)

SpecConc == InitConc /\ [][NextConc]_vars

\* the calls that have a transport, and those that have a session id
Connected == {c \in Tasks : tasks[c].ws # 0}

InSession == {c \in Tasks : tasks[c].session_id # 0}

IsSessionFrame(f) == f.event \in {"StartSession", "TaskRequest", "FinishSession"}

\* the session frames sent on a transport, in order
SessionFrames(t) == SelectSeq(sockets[t].frames, IsSessionFrame)

IsPrefix(p, q) == Len(p) <= Len(q) /\ SubSeq(q, 1, Len(p)) = p

OwnResources ==
    /\ \A c \in Connected : \A d \in Connected \ {c} :
          /\ tasks[c].ws # tasks[d].ws
          /\ sockets[tasks[c].ws].connect_id # sockets[tasks[d].ws].connect_id
    /\ \A c \in InSession : \A d \in InSession \ {c} :
          tasks[c].session_id # tasks[d].session_id
    /\ \A c \in Connected :
          tasks[c].audio_data = sockets[tasks[c].ws].received
    /\ \A c \in Tasks :
          tasks[c].saved # <<>> => tasks[c].saved = sockets[tasks[c].ws].received

\* a step of one call leaves the other calls and their transports alone
OwnStep ==
    \A c \in Tasks :
        tasks'[c] # tasks[c] =>
            \A d \in Tasks \ {c} :
                /\ tasks'[d] = tasks[d]
                /\ tasks[d].ws # 0 => sockets'[tasks[d].ws] = sockets[tasks[d].ws]

\* C12: two calls on one client object, under every interleaving of their
\* awaits, have each their own transport, connection id and session id; the
\* audio of a call is what was received on its own transport; and a step of
\* one call, a failure included, changes nothing of the other call.
C12_Independence == []OwnResources /\ [][OwnStep]_vars

\* C12 witness: "b" connected first and "a" opened its session first; "a"
\* failed on an error frame after one payload, "b" saved its two payloads
C12_Witness ==
    /\ tasks["b"].ws = 1
    /\ tasks["a"].ws = 2
    /\ tasks["a"].session_id < tasks["b"].session_id
    /\ tasks["a"].outcome.kind = "ServerError"
    /\ tasks["a"].audio_data = <<1>>
    /\ tasks["b"].outcome = Ok
    /\ tasks["b"].saved = <<2, 1>>

SessionIdInv ==
    /\ \A t \in DOMAIN sockets : \A k \in DOMAIN sockets[t].frames :
          LET f == sockets[t].frames[k]
          IN  IF IsSessionFrame(f)
              THEN \E c \in InSession :
                      tasks[c].ws = t /\ f.session_id = tasks[c].session_id
              ELSE f.session_id = 0
    /\ \A t \in DOMAIN sockets :
          LET events == [k \in DOMAIN SessionFrames(t) |-> SessionFrames(t)[k].event]
          IN  IsPrefix(events, <<"StartSession", "TaskRequest", "FinishSession">>)
    /\ \A c \in InSession :
          /\ \A d \in InSession \ {c} : tasks[c].session_id # tasks[d].session_id
          /\ \A t \in DOMAIN sockets : sockets[t].connect_id # tasks[c].session_id

SessionIdStep ==
    \A c \in Tasks :
        /\ tasks[c].session_id # 0 => tasks'[c].session_id = tasks[c].session_id
        /\ tasks'[c].session_id # tasks[c].session_id =>
              /\ tasks'[c].session_id > uuids
              /\ SessionFrames(tasks[c].ws) = <<>>

\* C14: a call draws one new session id before it sends StartSession; its
\* StartSession, TaskRequest and FinishSession frames carry that id, in that
\* order and once each, so none follows FinishSession; no frame of another
\* call, earlier, later or concurrent, carries it.
C14_SessionIdDiscipline == []SessionIdInv /\ [][SessionIdStep]_vars

\* C14 witness: both calls have sent FinishSession, each with its own id
C14_Witness ==
    /\ \A c \in Tasks : tasks[c].pc = "done" /\ tasks[c].outcome = Ok
    /\ \A c \in Tasks :
          SessionFrames(tasks[c].ws) =
              << Frame("StartSession", tasks[c].session_id),
                 Frame("TaskRequest", tasks[c].session_id),
                 Frame("FinishSession", tasks[c].session_id) >>
    /\ tasks["a"].session_id # tasks["b"].session_id

\* --------------------------------------------------------- batch drivers
Drivers == {"process_single_file", "main", "generate_segments"}

\* voice identifiers of segments: none, one of the per-voice tables of
\* process_more_file and process_text_to_voice, one of neither table
SegmentVoices == {"", "S_7ndFaTPI1", "zh_other"}

\* a segment: its voice, its text, and whether its output file is on disk
Segments == [speaker : SegmentVoices, text : {"", "text"}, exists : BOOLEAN]

\* ToNlpTexts keeps a line only with a speaker and content, and gives each
\* speaker a voice
Converted == {s \in Segments : s.speaker # "" /\ s.text # ""}

\* the voices the if/elif chain of process_single_file names
SingleFileTable == {"S_7ndFaTPI1", "S_vNQFaTPI1", "S_hUnLaTPI1", "S_fN2KaTPI1"}

\* the keywords a driver passes to synthesize_to_file
DriverKeywords(dr) ==
    IF dr = "process_single_file"
    THEN DOMAIN BaseArgs(Prosody(0, 0, "neutral", 0))
    ELSE DOMAIN BaseArgs(Prosody(0, 0, "neutral", 0)) \cup {"pitch_rate"}

\* how a synthesize_to_file call with these keywords can end
SynthesizeResults(dr) ==
    IF DriverKeywords(dr) \subseteq Signature
    THEN {Ok, Err("ConnectionClosed"), Err("NoAudio")}
    ELSE {Err("TypeError")}

SegmentLists(dr) ==
    UNION {[1..n -> IF dr = "main" THEN Converted ELSE Segments] :
              n \in 0..MaxSegments}

InitBatch ==
    /\ pc = "batch"
    /\ CallIdle
    /\ VoiceIdle
    /\ ConcIdle
    /\ driver \in Drivers
    /\ nlp_texts \in SegmentLists(driver)
    /\ seg = 1
    /\ audio_files = <<>>
    /\ attempted = <<>>
    /\ merge_calls = <<>>
    /\ driver_pc = "loop"
    /\ driver_exc = "none"

batchOthers == <<callVars, voiceVars, concVars>>

InLoop(dr) ==
    /\ driver = dr
    /\ driver_pc = "loop"
    /\ seg \in DOMAIN nlp_texts

\* continue, or fall through to the end of the loop body
NextSegment ==
    /\ seg' = seg + 1
    /\ UNCHANGED <<driver_pc, driver_exc>>

\* an exception leaves the loop and the driver
Propagates(e) ==
    /\ driver_pc' = "raised"
    /\ driver_exc' = e
    /\ UNCHANGED seg

\* await client.synthesize_to_file(...) for the segment the loop is at
Synthesize(r) == attempted' = Append(attempted, [seg |-> seg, result |-> r])

\* the output file appended before the call is awaited
SingleFileSegment_AppendBeforeCall ==
    /\ InLoop("process_single_file")
    /\ LET item == nlp_texts[seg]
       IN  IF item.speaker = "" \/ item.text = ""
           THEN /\ NextSegment
                /\ UNCHANGED <<audio_files, attempted>>
           ELSE IF item.exists
           THEN /\ audio_files' = Append(audio_files, seg)
                /\ NextSegment
                /\ UNCHANGED attempted
           ELSE IF item.speaker \notin SingleFileTable
           THEN /\ \E e \in {"AttributeError", "NameError"} : Propagates(e)
                /\ UNCHANGED <<audio_files, attempted>>
           ELSE /\ \E r \in SynthesizeResults(driver) : Synthesize(r)
                /\ audio_files' = Append(audio_files, seg)
                /\ NextSegment
    /\ UNCHANGED <<driver, nlp_texts, merge_calls, batchOthers>>

\* one turn of the loop of process_more_file.process_single_file
SingleFileSegment ==
    /\ InLoop("process_single_file")
    /\ LET item == nlp_texts[seg]
       IN  IF item.speaker = "" \/ item.text = ""
           THEN /\ NextSegment
                /\ UNCHANGED <<audio_files, attempted>>
           ELSE IF item.exists
           THEN /\ audio_files' = Append(audio_files, seg)
                /\ NextSegment
                /\ UNCHANGED attempted
           ELSE IF item.speaker \notin SingleFileTable
           THEN /\ \E e \in {"AttributeError", "NameError"} : Propagates(e)
                /\ UNCHANGED <<audio_files, attempted>>
           ELSE /\ \E r \in SynthesizeResults(driver) :
                      /\ Synthesize(r)
                      /\ audio_files' = IF r = Ok THEN Append(audio_files, seg)
                                        ELSE audio_files
                /\ NextSegment
    /\ UNCHANGED <<driver, nlp_texts, merge_calls, batchOthers>>

\* one turn of the loop of process_text_to_voice.main
MainSegment ==
    /\ InLoop("main")
    /\ LET item == nlp_texts[seg]
       IN  IF item.exists
           THEN /\ audio_files' = Append(audio_files, seg)
                /\ UNCHANGED attempted
           ELSE \E r \in SynthesizeResults(driver) :
                   /\ Synthesize(r)
                   /\ audio_files' = IF r = Ok THEN Append(audio_files, seg)
                                     ELSE audio_files
    /\ NextSegment
    /\ UNCHANGED <<driver, nlp_texts, merge_calls, batchOthers>>

\* one turn of the loop of webui.generate_segments
GenerateSegmentsSegment ==
    /\ InLoop("generate_segments")
    /\ LET item == nlp_texts[seg]
       IN  IF item.speaker = "" \/ item.text = ""
           THEN /\ NextSegment
                /\ UNCHANGED <<audio_files, attempted>>
           ELSE \E r \in SynthesizeResults(driver) :
                   /\ Synthesize(r)
                   /\ IF r = Ok
                      THEN /\ audio_files' = Append(audio_files, seg)
                           /\ NextSegment
                      ELSE /\ Propagates(r.kind)
                           /\ UNCHANGED audio_files
    /\ UNCHANGED <<driver, nlp_texts, merge_calls, batchOthers>>

\* the list is exhausted
LoopEnds ==
    /\ driver_pc = "loop"
    /\ seg \notin DOMAIN nlp_texts
    /\ driver_pc' = "after_loop"
    /\ UNCHANGED <<driver, nlp_texts, seg, audio_files, attempted, merge_calls,
                   driver_exc, batchOthers>>

\* what follows the loop: process_single_file returns on an empty list and
\* merges otherwise, main merges whatever the list, generate_segments returns
\* the list; a failure of the merge is caught and logged
AfterLoop ==
    /\ driver_pc = "after_loop"
    /\ merge_calls' =
          IF \/ driver = "process_single_file" /\ audio_files # <<>>
             \/ driver = "main"
          THEN Append(merge_calls, audio_files)
          ELSE merge_calls
    /\ driver_pc' = "returned"
    /\ UNCHANGED <<driver, nlp_texts, seg, audio_files, attempted, driver_exc,
                   batchOthers>>

NextBatch ==
    \/ SingleFileSegment
    \/ MainSegment
    \/ GenerateSegmentsSegment
    \/ LoopEnds
    \/ AfterLoop

SpecBatch == InitBatch /\ [][NextBatch]_vars

\* a segment the driver has to synthesize
Eligible(j) ==
    /\ nlp_texts[j].speaker # ""
    /\ nlp_texts[j].text # ""
    /\ ~nlp_texts[j].exists

\* the synthesize_to_file calls made for segment j
Called(j) == {k \in DOMAIN attempted : attempted[k].seg = j}

\* C16: in each driver no failure of a segment leaves the loop, and when the
\* driver ends synthesize_to_file has been called for every segment with a
\* voice, a text and no output file.
C16_FailureIsolation ==
    /\ driver_pc # "raised"
    /\ driver_pc = "returned" =>
          \A j \in DOMAIN nlp_texts : Eligible(j) => Called(j) # {}

\* ------------------------------------------- the output file of a failed call
\* C21: a call that raises to its caller, from steps 2-7 or from the cleanup,
\* has not written output_file.
C21_FailedCallLeavesNoFile ==
    Failed => file \in InitialFiles

\* -------------------------------------- the merge list of process_single_file
\* the segments the loop has been through
Visited == {j \in DOMAIN nlp_texts : j < seg}

\* segments the loop does not skip for a missing voice or a blank text
HasVoiceAndText(j) == nlp_texts[j].speaker # "" /\ nlp_texts[j].text # ""

\* segments whose synthesize_to_file call returned without raising
Returned(j) == \E k \in Called(j) : attempted[k].result = Ok

StrictlyIncreasing(q) == \A m, n \in DOMAIN q : m < n => q[m] < q[n]

\* C22: in process_single_file audio_files holds, in increasing index order
\* and once each, exactly the segments gone through that have a voice and a
\* text and whose file was on disk or whose synthesis returned;
\* synthesize_to_file is called at most once per segment and never for a
\* segment whose file is on disk; merge_audio_files is called only with the
\* complete, non-empty list.
C22_MergeList ==
    driver = "process_single_file" =>
        /\ StrictlyIncreasing(audio_files)
        /\ Range(audio_files) =
              {j \in Visited : HasVoiceAndText(j)
                               /\ (nlp_texts[j].exists \/ Returned(j))}
        /\ \A j \in DOMAIN nlp_texts :
              /\ Cardinality(Called(j)) <= 1
              /\ Called(j) # {} => HasVoiceAndText(j) /\ ~nlp_texts[j].exists
        /\ \A k \in DOMAIN merge_calls :
              /\ merge_calls[k] # <<>>
              /\ merge_calls[k] = audio_files
              /\ Visited = DOMAIN nlp_texts
        /\ Len(merge_calls) <= 1

\* C22 witness: of three segments the first was on disk, the second failed
\* and the third was synthesized; the first and the third are merged
C22_Witness ==
    /\ driver = "process_single_file"
    /\ driver_pc = "returned"
    /\ Len(nlp_texts) = 3
    /\ nlp_texts[1].exists
    /\ attempted = << [seg |-> 2, result |-> Err("ConnectionClosed")],
                      [seg |-> 3, result |-> Ok] >>
    /\ audio_files = <<1, 3>>
    /\ merge_calls = << <<1, 3>> >>

====
